---------------------------- MODULE Spec2Model ----------------------------
(***************************************************************************)
(* A model of julia.py: the escape-time evaluation Julia.get_pixel, the    *)
(* construction of a Julia object (sample grid, then one escape count per  *)
(* grid point) and the plotted extent read back by Julia.get_figure.       *)
(*                                                                         *)
(* Python's float is the IEEE-754 binary64 number and complex is a pair of *)
(* them.  The model computes with them exactly as the interpreter does:    *)
(* every product and sum is rounded to nearest, ties to even, to 53        *)
(* significant bits (with gradual underflow).  Integers wider than TLC's   *)
(* are held as little-endian sequences of 14-bit limbs.  The arguments are  *)
(* finite floats (no infinity, no NaN).  Of get_pixel's arithmetic only    *)
(* abs(z) can then leave the finite floats: z is squared only after        *)
(* abs(z) < 2 was found, and adding a number below 4 to a finite c gives a *)
(* finite float.                                                           *)
(***************************************************************************)
EXTENDS Integers, Sequences, FiniteSets

(***************************************************************************)
(* Natural numbers of any size: <<>> is 0, <<l1, ..., lk>> is              *)
(* l1 + l2*Base + ... + lk*Base^(k-1) with lk > 0.  The operations that    *)
(* use an argument more than once are functions, whose arguments TLC       *)
(* evaluates once, before it applies them.                                 *)
(***************************************************************************)
LimbBits == 14

Base == 2 ^ LimbBits

BigNat == Seq(Nat)

RECURSIVE BNorm(_)
BNorm(a) ==
    IF a = <<>> THEN <<>>
    ELSE IF a[Len(a)] = 0 THEN BNorm(SubSeq(a, 1, Len(a) - 1))
    ELSE a

RECURSIVE BOfNat(_)
BOfNat(k) == IF k = 0 THEN <<>> ELSE <<k % Base>> \o BOfNat(k \div Base)

RECURSIVE BAddC(_, _, _)
BAddC(a, b, carry) ==
    IF a = <<>> /\ b = <<>>
    THEN (IF carry = 0 THEN <<>> ELSE <<carry>>)
    ELSE IF carry = 0 /\ b = <<>> THEN a
    ELSE IF carry = 0 /\ a = <<>> THEN b
    ELSE LET x == IF a = <<>> THEN 0 ELSE Head(a)
             y == IF b = <<>> THEN 0 ELSE Head(b)
             s == x + y + carry
         IN  <<s % Base>> \o BAddC(IF a = <<>> THEN <<>> ELSE Tail(a),
                                   IF b = <<>> THEN <<>> ELSE Tail(b),
                                   s \div Base)

BAdd[a \in BigNat, b \in BigNat] == BAddC(a, b, 0)

\* a - b - borrow, limb by limb, for a >= b + borrow.
RECURSIVE BSubB(_, _, _)
BSubB(a, b, borrow) ==
    IF a = <<>> THEN <<>>
    ELSE LET y == IF b = <<>> THEN 0 ELSE Head(b)
             d == Head(a) - y - borrow
         IN  <<d % Base>> \o BSubB(Tail(a),
                                   IF b = <<>> THEN <<>> ELSE Tail(b),
                                   IF d < 0 THEN 1 ELSE 0)

BSub[a \in BigNat, b \in BigNat] == BNorm(BSubB(a, b, 0))

\* Compare the limbs i, i-1, ..., 1 of two numbers of the same length.
RECURSIVE BCmpFrom(_, _, _)
BCmpFrom(a, b, i) ==
    IF i = 0 THEN 0
    ELSE IF a[i] < b[i] THEN -1
    ELSE IF a[i] > b[i] THEN 1
    ELSE BCmpFrom(a, b, i - 1)

\* -1, 0 or 1 as a < b, a = b or a > b.
BCmp[a \in BigNat, b \in BigNat] ==
    IF Len(a) < Len(b) THEN -1
    ELSE IF Len(a) > Len(b) THEN 1
    ELSE BCmpFrom(a, b, Len(a))

\* a * d + carry for one limb d.
RECURSIVE BMulSmallC(_, _, _)
BMulSmallC(a, d, carry) ==
    IF a = <<>> THEN (IF carry = 0 THEN <<>> ELSE <<carry>>)
    ELSE LET p == Head(a) * d + carry
         IN  <<p % Base>> \o BMulSmallC(Tail(a), d, p \div Base)

BMulSmall[a \in BigNat, d \in Nat] == BNorm(BMulSmallC(a, d, 0))

\* a * Base
BShiftLimb[a \in BigNat] == IF a = <<>> THEN <<>> ELSE <<0>> \o a

BMul[a \in BigNat, b \in BigNat] ==
    IF a = <<>> \/ b = <<>> THEN <<>>
    ELSE BAdd[BMulSmall[b, Head(a)], BShiftLimb[BMul[Tail(a), b]]]

\* Quotient of the limbs i, ..., 1 of a by one limb d, with rem carried in.
RECURSIVE BDivFrom(_, _, _, _)
BDivFrom(a, i, d, rem) ==
    IF i = 0 THEN <<>>
    ELSE LET cur == rem * Base + a[i]
         IN  BDivFrom(a, i - 1, d, cur % d) \o <<cur \div d>>

BDivSmall[a \in BigNat, d \in Nat] == BNorm(BDivFrom(a, Len(a), d, 0))

\* a * 2^k
BShl[a \in BigNat, k \in Nat] ==
    IF a = <<>> THEN <<>>
    ELSE [i \in 1..(k \div LimbBits) |-> 0] \o BMulSmall[a, 2 ^ (k % LimbBits)]

\* floor(a / 2^k)
BShr[a \in BigNat, k \in Nat] ==
    IF k \div LimbBits >= Len(a) THEN <<>>
    ELSE BDivSmall[SubSeq(a, (k \div LimbBits) + 1, Len(a)), 2 ^ (k % LimbBits)]

\* a mod 2^k
BLow[a \in BigNat, k \in Nat] ==
    IF k \div LimbBits >= Len(a) THEN a
    ELSE BNorm(SubSeq(a, 1, k \div LimbBits)
               \o <<a[(k \div LimbBits) + 1] % (2 ^ (k % LimbBits))>>)

RECURSIVE BitLen(_)
BitLen(x) == IF x = 0 THEN 0 ELSE 1 + BitLen(x \div 2)

\* The number of bits of a: 0 for 0, else floor(log2 a) + 1.
BBitLen[a \in BigNat] ==
    IF a = <<>> THEN 0 ELSE LimbBits * (Len(a) - 1) + BitLen(a[Len(a)])

BIsOdd[a \in BigNat] == a # <<>> /\ a[1] % 2 = 1

(***************************************************************************)
(* Python float: [s, m, e] is the binary64 number s * m * 2^e, with s the  *)
(* sign (1 or -1) and m a natural number of exactly MantBits bits (a       *)
(* normal number), or of fewer bits with e = MinExp (a subnormal one).     *)
(* Zero is FZero; the sign of a zero is not kept (-0.0 and 0.0 compare     *)
(* equal, have the same abs and give the same sums and products up to the  *)
(* sign of a zero).  No operation of get_pixel overflows: a value is only  *)
(* squared while its abs is below 2.                                       *)
(***************************************************************************)
MantBits == 53

MinExp == -1074

Floats == [s : {-1, 1}, m : BigNat, e : Int]

FZero == [s |-> 1, m |-> <<>>, e |-> 0]

\* q, the leading bits of a number of which k bits were dropped, rounded to
\* nearest, ties to even: c is -1, 0 or 1 as the dropped bits are below, at
\* or above one half.
FRoundUp[q \in BigNat, c \in {-1, 0, 1}] ==
    IF c = 1 \/ (c = 0 /\ BIsOdd[q]) THEN BAdd[q, <<1>>] ELSE q

\* The float s * q * 2^e for q of at most MantBits + 1 bits.
FPack[s \in {-1, 1}, q \in BigNat, e \in Int] ==
    IF q = <<>> THEN FZero
    ELSE IF BBitLen[q] > MantBits THEN [s |-> s, m |-> BShr[q, 1], e |-> e + 1]
    ELSE [s |-> s, m |-> q, e |-> e]

\* The binary64 number nearest to s * M * 2^E, ties to even.
FRound[s \in {-1, 1}, M \in BigNat, E \in Int] ==
    IF M = <<>> THEN FZero
    ELSE LET L  == BBitLen[M]
             et == IF E + L - MantBits > MinExp THEN E + L - MantBits ELSE MinExp
         IN  IF et <= E
             THEN [s |-> s, m |-> BShl[M, E - et], e |-> et]
             ELSE FPack[s,
                        FRoundUp[BShr[M, et - E],
                                 BCmp[BLow[M, et - E], BShl[<<1>>, et - E - 1]]],
                        et]

\* The float k * 2^p for an integer k.
FOf(k, p) == FRound[IF k < 0 THEN -1 ELSE 1, BOfNat(IF k < 0 THEN -k ELSE k), p]

FNeg[x \in Floats] == IF x.m = <<>> THEN x ELSE [x EXCEPT !.s = -x.s]

\* float.__mul__
FMul[x \in Floats, y \in Floats] == FRound[x.s * y.s, BMul[x.m, y.m], x.e + y.e]

\* The sum of s * X * 2^e and t * Y * 2^e.
FAddAligned[s \in {-1, 1}, X \in BigNat, t \in {-1, 1}, Y \in BigNat, e \in Int] ==
    IF s = t THEN FRound[s, BAdd[X, Y], e]
    ELSE IF BCmp[X, Y] = 0 THEN FZero
    ELSE IF BCmp[X, Y] = 1 THEN FRound[s, BSub[X, Y], e]
    ELSE FRound[t, BSub[Y, X], e]

\* float.__add__.  An operand more than MantBits + 1 binary places below the
\* other one (which is then a normal number) is under a quarter of its ulp,
\* and the sum rounds to the larger operand.
FAdd[x \in Floats, y \in Floats] ==
    IF x.m = <<>> THEN y
    ELSE IF y.m = <<>> THEN x
    ELSE IF x.e - y.e >= MantBits + 2 THEN x
    ELSE IF y.e - x.e >= MantBits + 2 THEN y
    ELSE IF x.e >= y.e THEN FAddAligned[x.s, BShl[x.m, x.e - y.e], y.s, y.m, y.e]
    ELSE FAddAligned[x.s, x.m, y.s, BShl[y.m, y.e - x.e], x.e]

\* float.__sub__
FSub[x \in Floats, y \in Floats] == FAdd[x, FNeg[y]]

\* q with its last bit set when bits were lost below it.
BSticky[q \in BigNat, exact \in BOOLEAN] ==
    IF exact \/ BIsOdd[q] THEN q ELSE BAdd[q, <<1>>]

\* floor(n / d) for one limb d > 0, with the last bit set if d does not
\* divide n.
BDivSticky[n \in BigNat, d \in Nat] ==
    BSticky[BDivSmall[n, d], BCmp[BMulSmall[BDivSmall[n, d], d], n] = 0]

\* float.__truediv__ by the integer d, 0 < d < Base.
FDivSmall[x \in Floats, d \in Nat] ==
    FRound[x.s, BDivSticky[BShl[x.m, 2 * LimbBits], d], x.e - 2 * LimbBits]

FAbs[x \in Floats] == [x EXCEPT !.s = 1]

\* x < y: the difference of two floats is rounded, but never to zero or
\* across it.
FLt[x \in Floats, y \in Floats] == FSub[x, y].m # <<>> /\ FSub[x, y].s = -1

FLe[x \in Floats, y \in Floats] == ~FLt[y, x]

(***************************************************************************)
(* Python complex: [re, im], two floats.                                   *)
(***************************************************************************)
Complexes == [re : Floats, im : Floats]

Complex(x, y) == [re |-> x, im |-> y]

\* complex.__mul__ (_Py_c_prod)
CProd[a \in Complexes, b \in Complexes] ==
    Complex(FSub[FMul[a.re, b.re], FMul[a.im, b.im]],
            FAdd[FMul[a.re, b.im], FMul[a.im, b.re]])

\* complex.__add__ (_Py_c_sum)
CSum[a \in Complexes, b \in Complexes] ==
    Complex(FAdd[a.re, b.re], FAdd[a.im, b.im])

\* The bound of the escape test, `abs(z) >= 2`.
Bound == 2

(***************************************************************************)
(* Exact dyadic numbers m * 2^e (m a natural number of any size), for the  *)
(* comparison in abs(z) >= 2.                                              *)
(***************************************************************************)
Dyadics == [m : BigNat, e : Int]

\* For a > 0: the power of 2 with 2^(DyTop[a] - 1) <= a < 2^DyTop[a].
DyTop[a \in Dyadics] == BBitLen[a.m] + a.e

\* -1, 0 or 1 as a < b, a = b or a > b.
DyCmp[a \in Dyadics, b \in Dyadics] ==
    IF a.m = <<>> THEN (IF b.m = <<>> THEN 0 ELSE -1)
    ELSE IF b.m = <<>> THEN 1
    ELSE IF DyTop[a] < DyTop[b] THEN -1
    ELSE IF DyTop[a] > DyTop[b] THEN 1
    ELSE IF a.e >= b.e THEN BCmp[BShl[a.m, a.e - b.e], b.m]
    ELSE BCmp[a.m, BShl[b.m, b.e - a.e]]

\* a - b, for a >= b.
DySub[a \in Dyadics, b \in Dyadics] ==
    IF b.m = <<>> THEN a
    ELSE IF a.e >= b.e THEN [m |-> BSub[BShl[a.m, a.e - b.e], b.m], e |-> b.e]
    ELSE [m |-> BSub[a.m, BShl[b.m, b.e - a.e]], e |-> a.e]

\* -1, 0 or 1 as hi + lo < t, = t or > t, for hi >= lo >= 0 and t > 0.  If
\* hi < t / 4 the sum is below t; else the sum is compared as lo with t - hi.
DySumCmp(hi, lo, t) ==
    IF DyCmp[hi, t] > 0 THEN 1
    ELSE IF DyCmp[hi, t] = 0 THEN (IF lo.m = <<>> THEN 0 ELSE 1)
    ELSE IF DyTop[hi] + 1 < DyTop[t] THEN -1
    ELSE DyCmp[lo, DySub[t, hi]]

\* x^2, exactly, for a float x.
FSquare[x \in Floats] == [m |-> BMul[x.m, x.m], e |-> 2 * x.e]

\* -1, 0 or 1 as re^2 + im^2 < t, = t or > t, exactly: |z| against sqrt(t).
NormCmp[z \in Complexes, t \in Dyadics] ==
    IF DyCmp[FSquare[z.re], FSquare[z.im]] >= 0
    THEN DySumCmp(FSquare[z.re], FSquare[z.im], t)
    ELSE DySumCmp(FSquare[z.im], FSquare[z.re], t)

(***************************************************************************)
(* abs(z) >= Bound.  abs of a complex is the C library's hypot(z.re, z.im) *)
(* and raises OverflowError when that is infinite for finite z.  hypot is  *)
(* not correctly rounded in every C library: its result is one of the two  *)
(* floats next to sqrt(re^2 + im^2).  So the test is true when the square  *)
(* root is at least Bound, false when it is at most the float before       *)
(* Bound, and between the two it is what the library at hand gives; abs    *)
(* raises when the square root is at least 2^(MaxExp + MantBits), does not *)
(* when it is at most the largest float, and between the two it is again   *)
(* the library's choice.                                                   *)
(***************************************************************************)
\* The exponent of the largest float, (2^MantBits - 1) * 2^MaxExp.
MaxExp == 971

\* Bound^2
BoundSq == [m |-> BOfNat(Bound * Bound), e |-> 0]

\* The square of the float before Bound, Bound - 2^-(MantBits - 1).
BelowBoundSq ==
    [m |-> BMul[BSub[BShl[BOfNat(Bound), MantBits - 1], <<1>>],
                BSub[BShl[BOfNat(Bound), MantBits - 1], <<1>>]],
     e |-> -(2 * (MantBits - 1))]

\* The square of the largest float.
MaxFloatSq ==
    [m |-> BMul[BSub[BShl[<<1>>, MantBits], <<1>>],
                BSub[BShl[<<1>>, MantBits], <<1>>]],
     e |-> 2 * MaxExp]

\* The square of 2^(MaxExp + MantBits), the least power of 2 above all floats.
InfinitySq == [m |-> <<1>>, e |-> 2 * (MaxExp + MantBits)]

\* The outcomes of `abs(z) >= 2` a C library can give: "ge" (true), "lt"
\* (false), "raise" (OverflowError).
AbsOutcomes(z) ==
    IF NormCmp[z, BelowBoundSq] <= 0 THEN {"lt"}
    ELSE IF NormCmp[z, BoundSq] < 0 THEN {"ge", "lt"}
    ELSE IF NormCmp[z, MaxFloatSq] <= 0 THEN {"ge"}
    ELSE IF NormCmp[z, InfinitySq] < 0 THEN {"ge", "raise"}
    ELSE {"raise"}

\* The library at hand: lib is the set of the outcomes [z, o] it gave so far
\* where it had a choice; hypot is a function, it gives the same again.
LibOutcomes(lib, z) ==
    IF \E d \in lib : d.z = z
    THEN {d.o : d \in {d \in lib : d.z = z}}
    ELSE AbsOutcomes(z)

\* What an outcome o of abs(z) >= 2 adds to lib.
LibLearns(z, o) ==
    IF AbsOutcomes(z) = {o} THEN {} ELSE {[z |-> z, o |-> o]}

(***************************************************************************)
(* Julia.get_pixel, one activation ("frame") of it:                        *)
(*     for n, z in zip(range(256), quadratic_map(c, z0)):                  *)
(*         if abs(z) >= 2:break                                            *)
(*     return n                                                            *)
(* pc is the place of the activation: "zip" at the head of the loop (the   *)
(* next item of zip is asked for), "test" at the if, "return" at the       *)
(* return statement, "done" once it returned (ret is the value returned),  *)
(* "error" if it raised (exc is the exception).  locals are the local      *)
(* names that are bound; rng is the next value of the range iterator, gen  *)
(* the generator that quadratic_map(c, z0) returned.                       *)
(***************************************************************************)
MaxIter == 256

\* mandelbrot.quadratic_map(c, z0): a generator of z0, z0^2 + c, ...; it has
\* yielded nothing yet.
QuadraticMap(c, z0) == [c |-> c, z |-> z0, started |-> FALSE]

\* The generator after its next item was asked for; the item is its z.
GenNext(g) ==
    IF ~g.started THEN [g EXCEPT !.started = TRUE]
    ELSE [g EXCEPT !.z = CSum[CProd[g.z, g.z], g.c]]

NoFrame == [pc |-> "none"]

\* The activation get_pixel(c, z0) on entry: only the parameters are bound.
NewFrame(c, z0) ==
    [pc     |-> "zip",
     locals |-> [c |-> c, z0 |-> z0],
     rng    |-> 0,
     gen    |-> QuadraticMap(c, z0)]

\* `for n, z in ...` binds the targets n and z.
Bind(locals, n, z) == [c |-> locals.c, z0 |-> locals.z0, n |-> n, z |-> z]

\* The activation left by an exception.
Raise(f, exc) ==
    [pc |-> "error", locals |-> f.locals, rng |-> f.rng, gen |-> f.gen,
     exc |-> exc]

\* ZipNext counting from 1 (enumerate(..., 1) in place of range).
ZipNextFromOne(f) ==
    IF f.rng >= MaxIter THEN [f EXCEPT !.pc = "return"]
    ELSE LET g == GenNext(f.gen)
         IN  [f EXCEPT !.pc = "test",
                       !.rng = f.rng + 1,
                       !.gen = g,
                       !.locals = Bind(f.locals, f.rng + 1, g.z)]

\* ZipNext over range(257).
ZipNextOneMore(f) ==
    IF f.rng >= MaxIter + 1 THEN [f EXCEPT !.pc = "return"]
    ELSE LET g == GenNext(f.gen)
         IN  [f EXCEPT !.pc = "test",
                       !.rng = f.rng + 1,
                       !.gen = g,
                       !.locals = Bind(f.locals, f.rng, g.z)]

\* ZipNext asking the generator twice for one value of the range.
ZipNextSkips(f) ==
    IF f.rng >= MaxIter THEN [f EXCEPT !.pc = "return"]
    ELSE LET g == GenNext(GenNext(f.gen))
         IN  [f EXCEPT !.pc = "test",
                       !.rng = f.rng + 1,
                       !.gen = g,
                       !.locals = Bind(f.locals, f.rng, g.z)]

\* zip(range(256), gen).__next__ and the binding of its item: zip asks the
\* range first, and ends the loop without asking the generator when the
\* range is exhausted.
ZipNext(f) ==
    IF f.rng >= MaxIter THEN [f EXCEPT !.pc = "return"]
    ELSE LET g == GenNext(f.gen)
         IN  [f EXCEPT !.pc = "test",
                       !.rng = f.rng + 1,
                       !.gen = g,
                       !.locals = Bind(f.locals, f.rng, g.z)]

\* `if abs(z) >= 2:break`, abs(z) >= 2 having the outcome o.
TestBound(f, o) ==
    IF o = "raise" THEN Raise(f, "OverflowError")
    ELSE [f EXCEPT !.pc = IF o = "ge" THEN "return" ELSE "zip"]

\* `return n`: n is unbound if the loop bound nothing.
Return(f) ==
    IF "n" \in DOMAIN f.locals
    THEN [pc |-> "done", locals |-> f.locals, rng |-> f.rng, gen |-> f.gen,
          ret |-> f.locals.n]
    ELSE Raise(f, "UnboundLocalError")

Running(f) == f.pc \in {"zip", "test", "return"}

\* The steps a running activation can take with the library lib; an
\* activation that ended stays as it is.
FrameStep(f, lib) ==
    IF f.pc = "zip" THEN {ZipNext(f)}
    ELSE IF f.pc = "test"
    THEN {TestBound(f, o) : o \in LibOutcomes(lib, f.locals.z)}
    ELSE IF f.pc = "return" THEN {Return(f)}
    ELSE {f}

(***************************************************************************)
(* get_pixel(c, z0) as a function of the library: the activation run to    *)
(* its end.  It takes at most 2 * MaxIter + 2 steps (an item and a test    *)
(* per value of the range, the end of the loop, the return).  S is the set *)
(* of the activations the libraries that agree with lib can have led to.   *)
(***************************************************************************)
StepAll(S, lib) == UNION {FrameStep(f, lib) : f \in S}

Steps4(S, lib) ==
    IF \E f \in S : Running(f)
    THEN StepAll(StepAll(StepAll(StepAll(S, lib), lib), lib), lib)
    ELSE S

Steps16(S, lib) ==
    IF \E f \in S : Running(f)
    THEN Steps4(Steps4(Steps4(Steps4(S, lib), lib), lib), lib)
    ELSE S

Steps64(S, lib) ==
    IF \E f \in S : Running(f)
    THEN Steps16(Steps16(Steps16(Steps16(S, lib), lib), lib), lib)
    ELSE S

Steps256(S, lib) ==
    IF \E f \in S : Running(f)
    THEN Steps64(Steps64(Steps64(Steps64(S, lib), lib), lib), lib)
    ELSE S

RunFrame(S, lib) ==
    IF \E f \in S : Running(f)
    THEN Steps256(Steps256(Steps256(S, lib), lib), lib)
    ELSE S

\* How an activation ended: the value returned, or -1 and the exception.
Outcome(f) ==
    IF f.pc = "done" THEN [ret |-> f.ret, exc |-> ""]
    ELSE [ret |-> -1, exc |-> f.exc]

\* The ways get_pixel(c, z0) can end with a library that agrees with lib
\* (with any library, for lib = {}).
GetPixel(c, z0, lib) ==
    {Outcome(f) : f \in RunFrame({NewFrame(c, z0)}, lib)}

(***************************************************************************)
(* The arguments the model calls get_pixel with.                           *)
(***************************************************************************)
\* The complex number (a + b*i) / 2^p.
Dyadic(a, b, p) == Complex(FOf(a, -p), FOf(b, -p))

\* complex(0x1.ffffffffffffep+0, -0x1.3988e1409212ep-25): its modulus is
\* between the float before 2 and 2, nearer to the former.
NearBound ==
    Complex([s |-> 1,  m |-> <<16382, 16383, 16383, 2047>>, e |-> -52],
            [s |-> -1, m |-> <<8494, 4132, 2273, 1254>>,    e |-> -77])

\* 1.5e308 = 0x1.ab36d48e1acf0p+1023
Huge == [s |-> 1, m |-> <<11504, 9094, 14036, 1708>>, e |-> 971]

Inputs ==
    << [c |-> Dyadic(0, 0, 0),  z0 |-> Dyadic(0, 0, 0)],
       [c |-> Dyadic(-1, 0, 0), z0 |-> Dyadic(0, 0, 0)],
       [c |-> Dyadic(0, 0, 0),  z0 |-> Dyadic(3, 0, 0)],
       [c |-> Dyadic(0, 0, 0),  z0 |-> Dyadic(0, -2, 0)],
       [c |-> Dyadic(1, 0, 2),  z0 |-> Dyadic(16515, 0, 15)],
       [c |-> Dyadic(3, 5, 3),  z0 |-> Dyadic(0, 0, 0)],
       [c |-> Dyadic(0, 0, 0),  z0 |-> NearBound],
       [c |-> Dyadic(0, 0, 0),  z0 |-> Complex(Huge, Huge)],
       [c |-> Complex(Huge, FNeg[Huge]), z0 |-> Dyadic(0, 0, 0)] >>

\* The number of calls of get_pixel one behaviour of Spec makes.
MaxCalls == 3

\* The number of workers of a parallel evaluation of the grid.
NumWorkers == 2

(***************************************************************************)
(* The state.  Of one activation of Julia.get_pixel:                       *)
(*   frame   the activation, NoFrame before the first call                 *)
(*   calls   the number of calls of get_pixel made                         *)
(* and, recorded for the properties,                                       *)
(*   cur     the values z was bound to in this call, in order              *)
(*   tests   the number of times this call evaluated its if                *)
(*   outs    the outcomes of abs(z) >= 2 in this call, in order            *)
(*   log     the calls that ended: arguments, values of z, outcome         *)
(*   libm    what is known of the C library: the outcomes of abs(z) >= 2   *)
(*           it gave where it had a choice                                 *)
(*   between whether this call has the arguments of a call that ended      *)
(*           and follows a call with other arguments made since            *)
(* Of one construction Julia(c_value, centre, extent, resolution):         *)
(*   jpc     the place of __init__: "idle" before the call, "grid" at      *)
(*           its first statement, "evaluate" at its second one, then       *)
(*           "otypes", "cells" and "cell" inside the call of the           *)
(*           vectorized function ("workers" while workers evaluate the     *)
(*           grid in its place), "done" once __init__ returned, "raised"   *)
(*           if it raised                                                  *)
(*   args    the arguments of __init__                                     *)
(*   self    the object: attrs are the names of the attributes assigned    *)
(*   exc     the exception raised, "" if none                              *)
(*   pos     the cell (in C order, from 1) the vectorized function is at   *)
(*   out     the output array of the vectorized function, -1 in a cell     *)
(*           not written yet                                               *)
(*   writes  the number of times each cell of out was written              *)
(*   figext  the extent get_figure passed to imshow, <<>> before it        *)
(* Of a parallel evaluation of the cells:                                  *)
(*   wk      for each worker, the cell it evaluates (0: none) and its      *)
(*           activation of get_pixel                                       *)
(*   taken   the cells handed to a worker                                  *)
(***************************************************************************)
VARIABLES frame, calls, cur, tests, outs, log, libm, between,
          jpc, args, self, exc, pos, out, writes, figext,
          wk, taken

pixelVars == <<frame, calls, cur, tests, outs, log, libm, between>>

juliaVars == <<jpc, args, self, exc, pos, out, writes, figext>>

workerVars == <<wk, taken>>

vars == <<pixelVars, juliaVars, workerVars>>

NoArgs ==
    [c_value |-> Complex(FZero, FZero), centre |-> Complex(FZero, FZero),
     extent |-> FZero, resolution |-> 0]

\* An object none of whose attributes is assigned.
NoAttributes == [attrs |-> {}, grid |-> <<>>, pixels |-> <<>>]

Idle == [cell |-> 0, frame |-> NoFrame]

Init ==
    /\ frame = NoFrame
    /\ calls = 0
    /\ cur = <<>>
    /\ tests = 0
    /\ outs = <<>>
    /\ log = {}
    /\ libm = {}
    /\ between = FALSE
    /\ jpc = "idle"
    /\ args = NoArgs
    /\ self = NoAttributes
    /\ exc = ""
    /\ pos = 0
    /\ out = <<>>
    /\ writes = <<>>
    /\ figext = <<>>
    /\ wk = [w \in 1..NumWorkers |-> Idle]
    /\ taken = {}

\* An activation that ended: it returned or raised.
Ended(f) == f.pc \in {"done", "error"}

\* get_pixel(c, z0) was called before, and the call that ended last had
\* other arguments.
Intervened(c, z0) ==
    /\ Ended(frame)
    /\ frame.locals.c # c \/ frame.locals.z0 # z0
    /\ \E r \in log : r.c = c /\ r.z0 = z0

\* Call with the generator of the call before kept for this one.
CallKeepsGenerator(c, z0) ==
    /\ frame.pc = "none" \/ Ended(frame)
    /\ calls < MaxCalls
    /\ frame' = IF Ended(frame)
                THEN [NewFrame(c, z0) EXCEPT !.gen = frame.gen]
                ELSE NewFrame(c, z0)
    /\ calls' = calls + 1
    /\ cur' = <<>>
    /\ tests' = 0
    /\ outs' = <<>>
    /\ between' = Intervened(c, z0)
    /\ UNCHANGED <<log, libm, juliaVars, workerVars>>

\* get_pixel(c, z0) is called.
Call(c, z0) ==
    /\ frame.pc = "none" \/ Ended(frame)
    /\ calls < MaxCalls
    /\ frame' = NewFrame(c, z0)
    /\ calls' = calls + 1
    /\ cur' = <<>>
    /\ tests' = 0
    /\ outs' = <<>>
    /\ between' = Intervened(c, z0)
    /\ UNCHANGED <<log, libm, juliaVars, workerVars>>

\* The record of the call that ended with activation f.
LogOf(f, zs) ==
    [c |-> f.locals.c, z0 |-> f.locals.z0, zs |-> zs, out |-> Outcome(f)]

\* The head of the for loop.
LoopNext ==
    /\ frame.pc = "zip"
    /\ frame' = ZipNext(frame)
    /\ cur' = IF frame'.pc = "test" THEN Append(cur, frame'.locals.z) ELSE cur
    /\ UNCHANGED <<calls, tests, outs, log, libm, between, juliaVars,
                   workerVars>>

\* The if of the loop body.
LoopTest ==
    /\ frame.pc = "test"
    /\ \E o \in LibOutcomes(libm, frame.locals.z) :
           /\ frame' = TestBound(frame, o)
           /\ outs' = Append(outs, o)
           /\ libm' = libm \cup LibLearns(frame.locals.z, o)
    /\ tests' = tests + 1
    /\ log' = IF Ended(frame') THEN log \cup {LogOf(frame', cur)} ELSE log
    /\ UNCHANGED <<calls, cur, between, juliaVars, workerVars>>

\* The return statement.
LoopReturn ==
    /\ frame.pc = "return"
    /\ frame' = Return(frame)
    /\ log' = log \cup {LogOf(frame', cur)}
    /\ UNCHANGED <<calls, cur, tests, outs, libm, between, juliaVars,
                   workerVars>>

Next ==
    \/ \E i \in 1..Len(Inputs) : Call(Inputs[i].c, Inputs[i].z0)
    \/ LoopNext
    \/ LoopTest
    \/ LoopReturn

Spec == Init /\ [][Next]_vars


(***************************************************************************)
(* Properties of get_pixel, under Spec.                                    *)
(***************************************************************************)
Done == frame.pc = "done"

\* The k-th test of this call found abs(z) below the bound; the value tested
\* is cur[k], the iterate z_(k-1).
Below(k) == outs[k] = "lt"

\* No test of this call found abs(z) >= 2.
NeverEscaped == \A k \in 1..Len(outs) : Below(k)

\* |z| >= Bound, of the modulus itself (not of abs(z) as the library rounds
\* it).
ExactGe(z) == NormCmp[z, BoundSq] >= 0

\* This call left the loop by the break.
Broke == Len(outs) > 0 /\ outs[Len(outs)] = "ge"

IsInput(c, z0) ==
    /\ frame.pc # "none"
    /\ frame.locals.c = c
    /\ frame.locals.z0 = z0

\* C1, as the claim states it: a call whose iterates z_0 .. z_(MaxIter-1) all
\* have abs below the bound returns MaxIter.
C1_ReturnsMaxIter ==
    (Done /\ Len(outs) = MaxIter /\ NeverEscaped) => frame.ret = MaxIter

\* C1, amended: a call whose iterates z_0 .. z_(MaxIter-1) all have abs(z)
\* below the bound (so that their moduli are below it) returns
\* MaxIter - 1 = 255, the last value of range(256); so do get_pixel(0, 0) and
\* get_pixel(-1, 0).
C1_ReturnsLastIndex ==
    /\ (Done /\ Len(outs) = MaxIter /\ NeverEscaped)
           => /\ frame.ret = MaxIter - 1
              /\ \A k \in 1..Len(cur) : ~ExactGe(cur[k])
    /\ (Done /\ IsInput(Dyadic(0, 0, 0), Dyadic(0, 0, 0)))
           => (NeverEscaped /\ frame.ret = MaxIter - 1)
    /\ (Done /\ IsInput(Dyadic(-1, 0, 0), Dyadic(0, 0, 0)))
           => (NeverEscaped /\ frame.ret = MaxIter - 1)

C1_Witness ==
    /\ Done
    /\ IsInput(Dyadic(-1, 0, 0), Dyadic(0, 0, 0))
    /\ Len(outs) = MaxIter
    /\ NeverEscaped
    /\ frame.ret = MaxIter - 1

\* C2, as the claim states it: a call with |z0| >= Bound returns 0, after one
\* test (of z0 itself) and before the generator computed any z^2 + c.
C2_StartBeyondBound ==
    (Ended(frame) /\ ExactGe(frame.locals.z0))
        => /\ Done
           /\ frame.ret = 0
           /\ tests = 1
           /\ cur = <<frame.locals.z0>>
           /\ frame.gen.z = frame.locals.z0

\* C3: the counter n is an integer of 0 .. 255 whenever it is bound, and so is
\* the value returned, which is therefore at most MaxIter.
C3_CounterInRange ==
    /\ frame.pc # "none" => frame.rng \in 0..MaxIter
    /\ (frame.pc # "none" /\ "n" \in DOMAIN frame.locals)
           => frame.locals.n \in 0..255
    /\ Done => (frame.ret \in 0..255 /\ frame.ret <= MaxIter)

C3_Witness == Done /\ frame.ret = 255 /\ frame.rng = MaxIter

\* C4, as the claim states it: the largest count, 255, is returned only when
\* every iterate that was tested had abs below the bound, and 0 only when
\* |z0| >= Bound.
C4_CapMeansNeverEscaped ==
    Done => /\ frame.ret = MaxIter - 1 => NeverEscaped
            /\ frame.ret = 0 => ExactGe(frame.locals.z0)

\* C7: a call passes through the (n, z) states, in order, that every earlier
\* call with the same arguments passed through (n is the place of z in cur),
\* and ends as they ended (with the same count, or the same exception),
\* whatever was called before or between them.
C7_SameArgumentsSameRun ==
    \A r \in log :
        (frame.pc # "none" /\ r.c = frame.locals.c /\ r.z0 = frame.locals.z0)
            => /\ Len(cur) <= Len(r.zs)
               /\ \A k \in 1..Len(cur) : cur[k] = r.zs[k]
               /\ Ended(frame) => (cur = r.zs /\ Outcome(frame) = r.out)

\* The third call, get_pixel(3/8 + 5/8 i, 0) as the first, returned 11 as the
\* first did, after a second call of 255 rounds with other arguments.
C7_Witness ==
    /\ calls = 3
    /\ between
    /\ Done
    /\ IsInput(Dyadic(3, 5, 3), Dyadic(0, 0, 0))
    /\ frame.ret = 11
    /\ \E r \in log : r.c = Dyadic(-1, 0, 0) /\ r.out.ret = 255

\* What C8 says of the (n, z) pairs, whichever way |z| is read: n and z are
\* bound together, first to (0, z0), then, only after a test that found
\* abs(z) below the bound, to (n + 1, z^2 + c), so z is the n-fold iterate of
\* z0; the moduli of the iterates before it are below the bound; a call that
\* leaves the loop by the break returns the index of the iterate it tested
\* last.
C8_Pairs ==
    /\ frame.pc = "none" => cur = <<>>
    /\ (frame.pc # "none" /\ "n" \notin DOMAIN frame.locals) => cur = <<>>
    /\ (frame.pc # "none" /\ "n" \in DOMAIN frame.locals)
           => /\ Len(cur) = frame.locals.n + 1
              /\ cur[1] = frame.locals.z0
              /\ cur[Len(cur)] = frame.locals.z
              /\ Len(cur) > 1
                     => /\ Below(Len(cur) - 1)
                        /\ ~ExactGe(cur[Len(cur) - 1])
                        /\ cur[Len(cur)] =
                               CSum[CProd[cur[Len(cur) - 1], cur[Len(cur) - 1]],
                                    frame.locals.c]
    /\ (Done /\ Broke)
           => /\ frame.ret = Len(cur) - 1
              /\ \A k \in 1..frame.ret : Below(k) /\ ~ExactGe(cur[k])

\* C8, as the claim states it: C8_Pairs, and the iterate at which a call left
\* the loop by the break has |z| >= Bound.
C8_BreakAtModulusBeyondBound ==
    /\ C8_Pairs
    /\ (Done /\ Broke) => ExactGe(cur[frame.ret + 1])

\* C8, amended: C8_Pairs, and the iterate at which a call left the loop by
\* the break has abs(z) >= Bound, abs(z) being the library's hypot, which can
\* be Bound for a modulus between the float before Bound and Bound.
C8_LinearStateMachine ==
    /\ C8_Pairs
    /\ (Done /\ Broke)
           => /\ outs[frame.ret + 1] = "ge"
              /\ NormCmp[cur[frame.ret + 1], BelowBoundSq] > 0

\* get_pixel(3/8 + 5/8 i, 0) left the loop by the break at n = 11.
C8_Witness ==
    /\ Done
    /\ Broke
    /\ frame.ret = 11
    /\ Len(cur) = 12

\* C9, as the claim states it: a call makes at most MaxIter tests and ends by
\* returning, with n bound.
C9_Terminates ==
    /\ tests <= MaxIter
    /\ frame.pc \in {"return", "done"} => "n" \in DOMAIN frame.locals
    /\ frame.pc # "error"


(***************************************************************************)
(* mandelbrot.complex_grid(centre, extent, resolution): the grid of        *)
(* resolution x resolution points of the closed square of side extent      *)
(* around centre, rows along the imaginary axis and columns along the      *)
(* real one, both increasing with the index, the first and the last        *)
(* coordinate of an axis being centre -/+ extent/2.                        *)
(***************************************************************************)
\* num evenly spaced floats from lo to hi, both included.
Linspace(lo, hi, num) ==
    [j \in 1..num |->
        IF j = 1 THEN lo
        ELSE IF j = num THEN hi
        ELSE FAdd[lo, FMul[FOf(j - 1, 0), FDivSmall[FSub[hi, lo], num - 1]]]]

\* centre.real - extent/2, centre.real + extent/2 and the same of centre.imag
Lower(x, extent) == FSub[x, FMul[extent, FOf(1, -1)]]

Upper(x, extent) == FAdd[x, FMul[extent, FOf(1, -1)]]

InvalidParameter(extent, resolution) ==
    resolution < 1 \/ extent.m = <<>> \/ extent.s = -1

ComplexGrid(centre, extent, resolution) ==
    IF InvalidParameter(extent, resolution)
    THEN [raised |-> TRUE, grid |-> <<>>]
    ELSE [raised |-> FALSE,
          grid |->
              [r \in 1..resolution |->
                  [j \in 1..resolution |->
                      Complex(Linspace(Lower(centre.re, extent),
                                       Upper(centre.re, extent), resolution)[j],
                              Linspace(Lower(centre.im, extent),
                                       Upper(centre.im, extent), resolution)[r])]]]

(***************************************************************************)
(* numpy arrays: a two-dimensional array is the sequence of its rows.      *)
(***************************************************************************)
\* The number of elements of a square array.
Size(a) == Len(a) * Len(a)

\* The i-th element, from 1, in C order (the last index varies fastest).
Flat(a, i) == a[((i - 1) \div Len(a)) + 1][((i - 1) % Len(a)) + 1]

\* The flat array elems as an array of the shape of a.
Reshape(elems, a) ==
    [r \in 1..Len(a) |-> [j \in 1..Len(a[r]) |-> elems[(r - 1) * Len(a) + j]]]

Points(a) == {a[r][j] : r \in 1..Len(a), j \in 1..Len(a)}

\* The order of complex numbers in numpy: by real part, then imaginary part.
CLess(a, b) == FLt[a.re, b.re] \/ (a.re = b.re /\ FLt[a.im, b.im])

\* ndarray.min(), ndarray.max()
ArrayMin(a) == CHOOSE p \in Points(a) : \A q \in Points(a) : ~CLess(q, p)

ArrayMax(a) == CHOOSE p \in Points(a) : \A q \in Points(a) : ~CLess(p, q)

\* FigureExtent with the bounds in the order (left, bottom, right, top).
FigureExtentByCorner(grid) ==
    <<ArrayMin(grid).re, ArrayMin(grid).im, ArrayMax(grid).re, ArrayMax(grid).im>>

\* The extent argument of imshow in get_figure: (left, right, bottom, top).
FigureExtent(grid) ==
    <<ArrayMin(grid).re, ArrayMax(grid).re, ArrayMin(grid).im, ArrayMax(grid).im>>

\* PixelCall with the grid point taken as the constant (the Mandelbrot set).
PixelCallMandelbrot(c_value, point) == NewFrame(point, c_value)

\* The call the vectorized function makes for one element of the grid:
\* self.get_pixel(c_value, point).
PixelCall(c_value, point) == NewFrame(c_value, point)

(***************************************************************************)
(* The constructions the model makes.                                      *)
(***************************************************************************)
Config(c_value, centre, extent, resolution) ==
    [c_value |-> c_value, centre |-> centre, extent |-> extent,
     resolution |-> resolution]

\* Valid arguments with a grid of four cells, each evaluated in few steps.
\* The third has two cells, (2 - 2^-51) + 1.25 * 2^-25 i and
\* (2 - 2^-51) + 1.375 * 2^-25 i, whose modulus is between the float before 2
\* and 2; the last cell of the fourth, 1.5 * 2^1023 * (1 + i), has a modulus
\* above every float.
SmallConfigs ==
    << Config(Dyadic(0, -1, 0), Dyadic(0, 0, 0), FOf(1, 0), 2),
       Config(Dyadic(1, 0, 1),  Dyadic(1, 1, 1), FOf(1, 0), 2),
       Config(Dyadic(0, 0, 0),
              Complex(FAdd[FOf(2, 0), FSub[FOf(1, -29), FOf(1, -51)]],
                      FOf(21, -29)),
              FOf(1, -28), 2),
       Config(Dyadic(0, 0, 0), Complex(FOf(1, 1023), FOf(1, 1023)),
              FOf(1, 1023), 2) >>

Configs ==
    SmallConfigs \o
    << Config(Dyadic(-1, 0, 0), Dyadic(0, 0, 0),   FOf(1, 0), 3),
       Config(Dyadic(2, 1, 2),  Dyadic(1, 0, 2),   FOf(3, -1), 2),
       Config(Dyadic(1, 0, 0),  Dyadic(3, 3, 0),   FOf(1, 0), 4),
       Config(Dyadic(0, 0, 0),  Dyadic(-3, -3, 0), FOf(2, 0), 5),
       Config(Dyadic(-1, 0, 0), Dyadic(0, 0, 0),   FOf(1, 0), 0),
       Config(Dyadic(-1, 0, 0), Dyadic(0, 0, 0),   FOf(1, 0), -1),
       Config(Dyadic(-1, 0, 0), Dyadic(0, 0, 0),   FOf(0, 0), 3),
       Config(Dyadic(-1, 0, 0), Dyadic(0, 0, 0),   FOf(-1, 0), 3),
       Config(Dyadic(0, -1, 0), Dyadic(0, 0, 0),   FOf(-1, -1), 0) >>

(***************************************************************************)
(* Julia.__init__:                                                         *)
(*     self.grid = complex_grid(centre, extent, resolution)                *)
(*     self.pixels = np.vectorize(self.get_pixel)(c_value, self.grid)      *)
(* and get_figure.  The vectorized function, given no otypes, first calls  *)
(* get_pixel on the first element to learn the type of the output, then    *)
(* calls it for every element in C order and stores each result; the       *)
(* attribute pixels is assigned when it has returned.                      *)
(***************************************************************************)
\* Julia(c_value, centre, extent, resolution) is called.
New(cfg) ==
    /\ jpc = "idle"
    /\ jpc' = "grid"
    /\ args' = cfg
    /\ UNCHANGED <<self, exc, pos, out, writes, figext, pixelVars, workerVars>>

\* InitGrid going on with a grid of its own when complex_grid raises.
InitGridGoesOn ==
    /\ jpc = "grid"
    /\ LET r == ComplexGrid(args.centre, args.extent, args.resolution)
           g == IF r.raised
                THEN ComplexGrid(args.centre, FOf(1, 0), 2).grid
                ELSE r.grid
       IN  /\ jpc' = "evaluate"
           /\ self' = [self EXCEPT !.attrs = @ \cup {"grid"}, !.grid = g]
           /\ out' = [i \in 1..Size(g) |-> -1]
           /\ writes' = [i \in 1..Size(g) |-> 0]
           /\ exc' = exc
    /\ UNCHANGED <<args, pos, figext, pixelVars, workerVars>>

\* The first statement of __init__: an exception of complex_grid leaves
\* __init__ at once.
InitGrid ==
    /\ jpc = "grid"
    /\ LET r == ComplexGrid(args.centre, args.extent, args.resolution)
       IN  IF r.raised
           THEN /\ jpc' = "raised"
                /\ exc' = "InvalidParameter"
                /\ UNCHANGED <<self, out, writes>>
           ELSE /\ jpc' = "evaluate"
                /\ self' = [self EXCEPT !.attrs = @ \cup {"grid"}, !.grid = r.grid]
                /\ out' = [i \in 1..Size(r.grid) |-> -1]
                /\ writes' = [i \in 1..Size(r.grid) |-> 0]
                /\ exc' = exc
    /\ UNCHANGED <<args, pos, figext, pixelVars, workerVars>>

\* The vectorized function is called: it calls get_pixel on the first
\* element of the grid.
VecOtypes ==
    /\ jpc = "evaluate"
    /\ jpc' = "otypes"
    /\ frame' = PixelCall(args.c_value, Flat(self.grid, 1))
    /\ calls' = calls + 1
    /\ cur' = <<>>
    /\ tests' = 0
    /\ outs' = <<>>
    /\ UNCHANGED <<log, libm, between, args, self, exc, pos, out, writes, figext,
                   workerVars>>

\* That call returned; only the type of its result is kept.
VecOtypesDone ==
    /\ jpc = "otypes"
    /\ frame.pc = "done"
    /\ jpc' = "cells"
    /\ pos' = 1
    /\ UNCHANGED <<args, self, exc, out, writes, figext, pixelVars, workerVars>>

\* get_pixel is called for the next element.
VecCall ==
    /\ jpc = "cells"
    /\ frame.pc = "done"
    /\ pos <= Size(self.grid)
    /\ frame' = PixelCall(args.c_value, Flat(self.grid, pos))
    /\ calls' = calls + 1
    /\ cur' = <<>>
    /\ tests' = 0
    /\ outs' = <<>>
    /\ jpc' = "cell"
    /\ UNCHANGED <<log, libm, between, args, self, exc, pos, out, writes, figext,
                   workerVars>>

\* Its result is stored in the output array.
VecStore ==
    /\ jpc = "cell"
    /\ frame.pc = "done"
    /\ out' = [out EXCEPT ![pos] = frame.ret]
    /\ writes' = [writes EXCEPT ![pos] = @ + 1]
    /\ pos' = pos + 1
    /\ jpc' = "cells"
    /\ UNCHANGED <<args, self, exc, figext, pixelVars, workerVars>>

\* A call of get_pixel raised: the exception leaves the vectorized function
\* and __init__, self.pixels is not assigned.
VecRaise ==
    /\ jpc \in {"otypes", "cell"}
    /\ frame.pc = "error"
    /\ jpc' = "raised"
    /\ exc' = frame.exc
    /\ UNCHANGED <<args, self, pos, out, writes, figext, pixelVars, workerVars>>

\* The vectorized function returned: self.pixels is assigned and __init__
\* returns.
InitPixels ==
    /\ jpc = "cells"
    /\ pos > Size(self.grid)
    /\ self' = [self EXCEPT !.attrs = @ \cup {"pixels"},
                            !.pixels = Reshape(out, self.grid)]
    /\ jpc' = "done"
    /\ UNCHANGED <<args, exc, pos, out, writes, figext, pixelVars, workerVars>>

\* get_figure: grid.min() and grid.max() give the extent of the plot.
GetFigure ==
    /\ jpc = "done"
    /\ figext = <<>>
    /\ figext' = FigureExtent(self.grid)
    /\ UNCHANGED <<jpc, args, self, exc, pos, out, writes, pixelVars, workerVars>>

NextJulia ==
    \/ \E i \in 1..Len(Configs) : New(Configs[i])
    \/ InitGrid
    \/ VecOtypes
    \/ VecOtypesDone
    \/ VecCall
    \/ LoopNext
    \/ LoopTest
    \/ LoopReturn
    \/ VecStore
    \/ VecRaise
    \/ InitPixels
    \/ GetFigure

SpecJulia == Init /\ [][NextJulia]_vars

(***************************************************************************)
(* Properties of the construction, under SpecJulia.                        *)
(***************************************************************************)
\* C5: a construction with resolution < 1 or extent <= 0 raises
\* InvalidParameter at the first statement of __init__: get_pixel is never
\* called, no output array exists and neither grid nor pixels is assigned.
C5_InvalidParameterEagerly ==
    /\ (jpc \notin {"idle", "grid"}
        /\ InvalidParameter(args.extent, args.resolution))
           => /\ jpc = "raised"
              /\ exc = "InvalidParameter"
              /\ calls = 0
              /\ frame = NoFrame
              /\ out = <<>>
              /\ self.attrs = {}
    /\ exc = "InvalidParameter"
           => InvalidParameter(args.extent, args.resolution)

\* Julia(-1, 0, 1.0, 0) raised.
C5_Witness ==
    /\ jpc = "raised"
    /\ exc = "InvalidParameter"
    /\ args.resolution = 0
    /\ ~(args.extent.m = <<>> \/ args.extent.s = -1)
    /\ "pixels" \notin self.attrs

\* |a - b| is at most 2^-48 times the size of the square's coordinates.
Close(a, b) ==
    FLe[FAbs[FSub[a, b]],
        FMul[FOf(1, -48),
             FAdd[FAdd[FAbs[args.centre.re], FAbs[args.centre.im]],
                  FAbs[args.extent]]]]

\* The spacing extent / (resolution - 1).
Spacing == FDivSmall[args.extent, args.resolution - 1]

\* C6: the grid of a valid construction with resolution >= 2 has resolution
\* rows of resolution points; its first and last columns have the real
\* parts centre.real -/+ extent/2 and its first and last rows the imaginary
\* parts centre.imag -/+ extent/2, which are the least and the greatest of
\* the grid; the real part grows along a row and the imaginary part with
\* the row index, by extent / (resolution - 1) a step (up to rounding); for
\* resolution = 2 the points are the four corners; and get_figure passes
\* (least real, greatest real, least imaginary, greatest imaginary).
C6_GridCoversSquare ==
    ("grid" \in self.attrs /\ args.resolution >= 2) =>
        LET g  == self.grid
            n  == args.resolution
            x0 == Lower(args.centre.re, args.extent)
            x1 == Upper(args.centre.re, args.extent)
            y0 == Lower(args.centre.im, args.extent)
            y1 == Upper(args.centre.im, args.extent)
        IN  /\ Len(g) = n
            /\ \A r \in 1..n : Len(g[r]) = n
            /\ \A r \in 1..n :
                   /\ g[r][1].re = x0
                   /\ g[r][n].re = x1
                   /\ g[1][r].im = y0
                   /\ g[n][r].im = y1
            /\ \A r \in 1..n, j \in 1..n :
                   /\ FLe[x0, g[r][j].re] /\ FLe[g[r][j].re, x1]
                   /\ FLe[y0, g[r][j].im] /\ FLe[g[r][j].im, y1]
            /\ \A r \in 1..n, j \in 1..(n - 1) :
                   /\ FLt[g[r][j].re, g[r][j + 1].re]
                   /\ g[r][j].im = g[r][j + 1].im
                   /\ Close(FSub[g[r][j + 1].re, g[r][j].re], Spacing)
                   /\ FLt[g[j][r].im, g[j + 1][r].im]
                   /\ g[j][r].re = g[j + 1][r].re
                   /\ Close(FSub[g[j + 1][r].im, g[j][r].im], Spacing)
            /\ n = 2 => g = << <<Complex(x0, y0), Complex(x1, y0)>>,
                               <<Complex(x0, y1), Complex(x1, y1)>> >>
            /\ figext # <<>> => figext = <<x0, x1, y0, y1>>

\* get_figure of Julia(-1, 0, 1.0, 3), whose grid has the real and the
\* imaginary parts -0.5, 0, 0.5.
C6_Witness ==
    /\ jpc = "done"
    /\ args.resolution = 3
    /\ self.grid[1] = <<Dyadic(-1, -1, 1), Dyadic(0, -1, 1), Dyadic(1, -1, 1)>>
    /\ self.grid[2] = <<Dyadic(-1, 0, 1), Dyadic(0, 0, 1), Dyadic(1, 0, 1)>>
    /\ self.grid[3] = <<Dyadic(-1, 1, 1), Dyadic(0, 1, 1), Dyadic(1, 1, 1)>>
    /\ figext = <<FOf(-1, -1), FOf(1, -1), FOf(-1, -1), FOf(1, -1)>>

(***************************************************************************)
(* The evaluation of the grid by NumWorkers workers in place of the        *)
(* vectorized call: a worker with nothing to do takes any cell that no     *)
(* worker took, evaluates get_pixel for it in an activation of its own,    *)
(* and writes the result in that cell of the output array.  The steps of   *)
(* the workers interleave in any way; the cells are taken in any order.    *)
(***************************************************************************)
Workers == 1..NumWorkers

\* A worker takes a cell.
WTake(w, i) ==
    /\ jpc \in {"evaluate", "workers"}
    /\ wk[w] = Idle
    /\ i \in 1..Size(self.grid)
    /\ i \notin taken
    /\ jpc' = "workers"
    /\ taken' = taken \cup {i}
    /\ wk' = [wk EXCEPT ![w] =
                 [cell |-> i, frame |-> PixelCall(args.c_value, Flat(self.grid, i))]]
    /\ UNCHANGED <<args, self, exc, pos, out, writes, figext, pixelVars>>

\* One step of a worker's activation of get_pixel.
WStep(w) ==
    /\ jpc = "workers"
    /\ Running(wk[w].frame)
    /\ \E f \in FrameStep(wk[w].frame, libm) :
           /\ wk' = [wk EXCEPT ![w].frame = f]
           /\ libm' = IF wk[w].frame.pc = "test"
                      THEN libm \cup LibLearns(wk[w].frame.locals.z,
                                               IF f.pc = "return" THEN "ge"
                                               ELSE IF f.pc = "zip" THEN "lt"
                                               ELSE "raise")
                      ELSE libm
    /\ UNCHANGED <<taken, juliaVars, frame, calls, cur, tests, outs, log,
                   between>>

\* A worker writes the count of its cell.
WWrite(w) ==
    /\ jpc = "workers"
    /\ wk[w].frame.pc = "done"
    /\ out' = [out EXCEPT ![wk[w].cell] = wk[w].frame.ret]
    /\ writes' = [writes EXCEPT ![wk[w].cell] = @ + 1]
    /\ wk' = [wk EXCEPT ![w] = Idle]
    /\ UNCHANGED <<taken, jpc, args, self, exc, pos, figext, pixelVars>>

\* The call of get_pixel of a worker raised: the evaluation ends with its
\* exception and self.pixels is not assigned.
WRaise(w) ==
    /\ jpc = "workers"
    /\ wk[w].frame.pc = "error"
    /\ jpc' = "raised"
    /\ exc' = wk[w].frame.exc
    /\ UNCHANGED <<args, self, pos, out, writes, figext, taken, wk, pixelVars>>

\* Every cell was written: self.pixels is assigned.
WJoin ==
    /\ jpc = "workers"
    /\ taken = 1..Size(self.grid)
    /\ \A w \in Workers : wk[w] = Idle
    /\ self' = [self EXCEPT !.attrs = @ \cup {"pixels"},
                            !.pixels = Reshape(out, self.grid)]
    /\ jpc' = "done"
    /\ UNCHANGED <<args, exc, pos, out, writes, figext, taken, wk, pixelVars>>

\* The grid is evaluated either by the vectorized call or by the workers.
NextWorkers ==
    \/ \E i \in 1..Len(SmallConfigs) : New(SmallConfigs[i])
    \/ InitGrid
    \/ VecOtypes
    \/ VecOtypesDone
    \/ VecCall
    \/ LoopNext
    \/ LoopTest
    \/ LoopReturn
    \/ VecStore
    \/ VecRaise
    \/ InitPixels
    \/ \E w \in Workers, i \in 1..Size(self.grid) : WTake(w, i)
    \/ \E w \in Workers : WStep(w)
    \/ \E w \in Workers : WWrite(w)
    \/ \E w \in Workers : WRaise(w)
    \/ WJoin

SpecWorkers == Init /\ [][NextWorkers]_vars

(***************************************************************************)
(* Properties of the evaluation of the grid, under SpecWorkers.            *)
(***************************************************************************)
\* C10: pixels has the shape of the grid; its entry for a cell is
\* get_pixel(c_value, z0) for the grid point z0 of the cell, whether the
\* cells were evaluated one after the other in C order or by workers in any
\* order and interleaving; each cell is written once, no two workers hold
\* the same cell; and the grid stays the one complex_grid returned.
C10_PixelsPerCell ==
    /\ "pixels" \in self.attrs
          => /\ Len(self.pixels) = Len(self.grid)
             /\ \A r \in 1..Len(self.grid) :
                    /\ Len(self.pixels[r]) = Len(self.grid[r])
                    /\ \A j \in 1..Len(self.grid[r]) :
                           GetPixel(args.c_value, self.grid[r][j], libm)
                               = {[ret |-> self.pixels[r][j], exc |-> ""]}
             /\ \A i \in 1..Size(self.grid) : writes[i] = 1
    /\ "grid" \in self.attrs
          => /\ self.grid = ComplexGrid(args.centre, args.extent, args.resolution).grid
             /\ \A i \in 1..Size(self.grid) : writes[i] <= 1
    /\ \A v, w \in Workers :
           (v # w /\ wk[v].cell # 0) => wk[v].cell # wk[w].cell

\* Julia(0.5, 0.5+0.5i, 1.0, 2), its four cells evaluated by workers.
C10_Witness ==
    /\ jpc = "done"
    /\ taken = 1..4
    /\ calls = 0
    /\ self.pixels = << <<5, 2>>, <<5, 1>> >>

=============================================================================
